---- MODULE Spec2Model ----
(***************************************************************************)
(* A model of njunmt/utils/model_builder.py: the EstimatorSpec record and  *)
(* its validating constructor, model_fn, and model_fn_ensemble.            *)
(*                                                                         *)
(* Python values are records with a "kind" field, so that None, strings,   *)
(* tensors, list objects (mutable, with an identity in a heap) and tuples  *)
(* (immutable, held by value) can be told apart and compared.              *)
(*                                                                         *)
(* A definition named ...Mutant is a faulty variant of the definition that *)
(* follows it; the properties are checked to fail when it is put in place. *)
(***************************************************************************)
EXTENDS Integers, Sequences, FiniteSets, TLC

VARIABLES
    heap,            \* the caller's list objects: list id -> its current elements
    args,            \* the arguments of the EstimatorSpec(...) call under study
    result,          \* what that call produced: None before it, then a record or an error
    mutations,       \* how many times the caller changed its lists after the call
    display_keys,    \* graph collection GlobalNames.DISPLAY_KEY_COLLECTION_NAME
    display_values,  \* graph collection GlobalNames.DISPLAY_VALUE_COLLECTION_NAME
    calls,           \* log of the model_fn calls made so far, oldest first: the inputs,
                     \* the model name used and the outcome
    ret,             \* outcome of the latest model_fn call
    fs,              \* the checkpoint directories: path -> variables stored and config state
    model_dirs,      \* the model_dirs argument of model_fn_ensemble
    pc,              \* where model_fn_ensemble is: "vars", "aggregate", "done" or "failed"
    index,           \* the position (from 0) of the checkpoint being processed
    var_pos,         \* the position (from 1) in its listing of the next variable
    model_name,      \* the local model_name
    graph_vars,      \* the variables declared in the graph, in order of declaration
    loaded,          \* log of the load_variable calls, oldest first
    models,          \* the local list models
    ensemble_built,  \* whether the EnsembleModel has been constructed and built
    ens_ret          \* outcome of model_fn_ensemble

es_vars == <<heap, args, result, mutations>>
mf_vars == <<display_keys, display_values, calls, ret>>
ens_vars == <<fs, model_dirs, pc, index, var_pos, model_name, graph_vars, loaded,
              models, ensemble_built, ens_ret>>
vars == <<heap, args, result, mutations, display_keys, display_values, calls, ret,
          fs, model_dirs, pc, index, var_pos, model_name, graph_vars, loaded,
          models, ensemble_built, ens_ret>>

(***************************************************************************)
(* Bounds of the model.                                                    *)
(***************************************************************************)
MaxHooks == 2
MaxMutations == 1
MaxCalls == 3
MaxDirs == 2

(***************************************************************************)
(* Python values.                                                          *)
(***************************************************************************)
None == [kind |-> "None"]
Tensor(t) == [kind |-> "tensor", id |-> t]
Str(s) == [kind |-> "str", s |-> s]
ListRef(id) == [kind |-> "list", id |-> id]
Tuple(items) == [kind |-> "tuple", items |-> items]

\* tf.contrib.learn.ModeKeys
TRAIN == "train"
EVAL == "eval"
INFER == "infer"
ModeKeys == {TRAIN, EVAL, INFER}
\* the modes a caller can pass: the three keys and a string that is none of them
Modes == ModeKeys \cup {"predict"}

\* The objects that may sit in a hook collection; the first two are instances
\* of tf.train.SessionRunHook, the last one is not.
SessionRunHooks == {"hookA", "hookB"}
Objects == SessionRunHooks \cup {"objX"}
IsSessionRunHook(hook) == hook \in SessionRunHooks

RECURSIVE SeqsUpTo(_, _)
SeqsUpTo(S, n) ==
    IF n = 0 THEN {<<>>}
    ELSE LET shorter == SeqsUpTo(S, n - 1)
         IN shorter \cup {Append(s, x) : s \in {t \in shorter : Len(t) = n - 1}, x \in S}

\* The elements of an iterable, in iteration order.
Elements(h, v) ==
    IF v.kind = "list" THEN h[v.id]
    ELSE IF v.kind = "tuple" THEN v.items
    ELSE <<>>

\* Python truthiness, as used by `x or []` and `assert x`.
Truthy(h, v) ==
    CASE v.kind = "None" -> FALSE
      [] v.kind = "str" -> v.s # ""
      [] v.kind = "list" -> h[v.id] # <<>>
      [] v.kind = "tuple" -> v.items # <<>>
      [] OTHER -> TRUE

(***************************************************************************)
(* Python string operations.                                               *)
(***************************************************************************)
\* k in s
Contains(s, k) == \E i \in 1..(Len(s) - Len(k) + 1) : SubSeq(s, i, i + Len(k) - 1) = k
\* s.index(k), counted from 0, for k in s
Index(s, k) ==
    LET at == {i \in 1..(Len(s) - Len(k) + 1) : SubSeq(s, i, i + Len(k) - 1) = k}
    IN (CHOOSE i \in at : \A j \in at : i <= j) - 1
\* s[:n]
SliceTo(s, n) == SubSeq(s, 1, n)
\* s.startswith(p)
StartsWith(s, p) == Len(s) >= Len(p) /\ SubSeq(s, 1, Len(p)) = p
\* s.split(".")[-1]
LastDotComponent(s) ==
    LET dots == {i \in 1..Len(s) : SubSeq(s, i, i) = "."}
    IN IF dots = {} THEN s
       ELSE SubSeq(s, (CHOOSE i \in dots : \A j \in dots : j <= i) + 1, Len(s))

(***************************************************************************)
(* EstimatorSpec.__new__                                                   *)
(***************************************************************************)
\* tuple(hooks or []): a new immutable sequence holding the elements.
TupleOfAliasMutant(h, hooks) == IF Truthy(h, hooks) THEN hooks ELSE Tuple(<<>>)
TupleOf(h, hooks) ==
    IF Truthy(h, hooks) THEN Tuple(Elements(h, hooks)) ELSE Tuple(<<>>)

\* The mode-dependent required fields; "" when none is missing.
MissingFieldNoTrainOpMutant(mode, predictions, loss, train_op) ==
    IF predictions = None /\ mode = INFER THEN "Missing predictions"
    ELSE IF loss = None /\ mode \in {TRAIN, EVAL} THEN "Missing loss."
    ELSE ""
MissingField(mode, predictions, loss, train_op) ==
    IF predictions = None /\ mode = INFER THEN "Missing predictions"
    ELSE IF loss = None /\ mode \in {TRAIN, EVAL} THEN "Missing loss."
    ELSE IF train_op = None /\ mode = TRAIN THEN "Missing train_op."
    ELSE ""

\* The first element, in iteration order, that is not a SessionRunHook; 0 if none.
FirstNonHookHeadOnlyMutant(hooks) ==
    IF hooks # <<>> /\ ~IsSessionRunHook(hooks[1]) THEN 1 ELSE 0
FirstNonHook(hooks) ==
    LET bad == {i \in 1..Len(hooks) : ~IsSessionRunHook(hooks[i])}
    IN IF bad = {} THEN 0 ELSE CHOOSE i \in bad : \A j \in bad : i <= j

\* EstimatorSpec(mode, predictions, loss, train_op, training_chief_hooks,
\* training_hooks), with h the heap in which list arguments live: the record,
\* or the exception raised.
EstimatorSpecNew(h, mode, predictions, loss, train_op, training_chief_hooks, training_hooks) ==
    LET missing == MissingField(mode, predictions, loss, train_op)
        chief == TupleOf(h, training_chief_hooks)
        hooks == TupleOf(h, training_hooks)
        all == Elements(h, hooks) \o Elements(h, chief)
        bad == FirstNonHook(all)
    IN IF missing # "" THEN [kind |-> "ValueError", msg |-> missing]
       ELSE IF bad # 0 THEN [kind |-> "TypeError", hook |-> all[bad]]
       ELSE [kind |-> "EstimatorSpec",
             predictions |-> predictions,
             loss |-> loss,
             train_op |-> train_op,
             training_chief_hooks |-> chief,
             training_hooks |-> hooks]

(***************************************************************************)
(* model_fn                                                                *)
(***************************************************************************)
\* GlobalNames.TRAIN_LOSS_KEY_NAME, the fixed display name of the training loss
TRAIN_LOSS_KEY_NAME == "training_loss"

\* What an exception raised by a collaborator looks like to the caller:
\* model_fn catches nothing, so the call ends with it.
Raised(by) == [kind |-> "Raised", by |-> by]
AssertionError == [kind |-> "AssertionError"]

\* name or model_configs["model"].split(".")[-1]
ModelName(name, model) ==
    IF Truthy(<<>>, name) THEN name ELSE Str(LastDotComponent(model))

\* model_output[0]
FirstOutput(model_output) == model_output.items[1]

\* optimize(loss, model_configs["optimizer_params"])
Optimize(loss, optimizer_params) ==
    [kind |-> "train_op", loss |-> loss, params |-> optimizer_params]

\* hooks = build_hooks(...); hooks.extend(build_eval_metrics(...))
ExtendedHooksReversedMutant(build_hooks, build_eval_metrics) ==
    build_eval_metrics \o build_hooks
ExtendedHooks(build_hooks, build_eval_metrics) == build_hooks \o build_eval_metrics

\* tf.add_to_collection(name, value)
AddToCollectionOnceMutant(collection, value) ==
    IF \E i \in 1..Len(collection) : collection[i] = value
    THEN collection ELSE Append(collection, value)
AddToCollection(collection, value) == Append(collection, value)

\* One call of model_fn on a graph whose display collections are keys and
\* values.  `in` holds the arguments and what the collaborators do in this
\* call: in.fault names the collaborator that raises ("none" if none does),
\* in.model_output is what model.build returns, in.build_hooks and
\* in.build_eval_metrics are the lists those functions return.  The result
\* gives the collections after the call and what the call returned or raised.
ModelFn(keys, values, in) ==
    IF in.fault = "model"
    THEN [keys |-> keys, values |-> values, ret |-> Raised("model")]
    ELSE IF in.mode = TRAIN
    THEN LET loss == FirstOutput(in.model_output)
             keys1 == AddToCollection(keys, TRAIN_LOSS_KEY_NAME)
             values1 == AddToCollection(values, loss)
             train_op == Optimize(loss, in.optimizer_params)
             h == [hooks |-> ExtendedHooks(in.build_hooks, in.build_eval_metrics)]
         IN [keys |-> keys1, values |-> values1,
             ret |-> IF in.fault = "optimize" THEN Raised("optimize")
                     ELSE IF in.fault = "hooks" THEN Raised("hooks")
                     ELSE EstimatorSpecNew(h, in.mode, None, loss, train_op,
                                           None, ListRef("hooks"))]
    ELSE IF in.mode = EVAL
    THEN [keys |-> keys, values |-> values,
          ret |-> EstimatorSpecNew(<<>>, in.mode, None, FirstOutput(in.model_output),
                                   None, None, None)]
    ELSE IF in.mode # INFER
    THEN [keys |-> keys, values |-> values, ret |-> AssertionError]
    ELSE [keys |-> keys, values |-> values,
          ret |-> EstimatorSpecNew(<<>>, in.mode, in.model_output, None,
                                   None, None, None)]

\* Each scenario leaves the state of the others as it is at start.
EsIdle ==
    /\ heap = [id \in {"chief", "hooks"} |-> <<>>]
    /\ args = None
    /\ result = None
    /\ mutations = 0

MfIdle ==
    /\ display_keys = <<>>
    /\ display_values = <<>>
    /\ calls = <<>>
    /\ ret = None

EnsIdle ==
    /\ fs = <<>>
    /\ model_dirs = <<>>
    /\ pc = "idle"
    /\ index = 0
    /\ var_pos = 1
    /\ model_name = None
    /\ graph_vars = <<>>
    /\ loaded = <<>>
    /\ models = <<>>
    /\ ensemble_built = FALSE
    /\ ens_ret = None

(***************************************************************************)
(* _inspect_varname_prefix                                                 *)
(***************************************************************************)
InspectVarnamePrefixOffByOneMutant(var_name) ==
    IF Contains(var_name, "/input_symbol_modality")
    THEN Str(SliceTo(var_name, Index(var_name, "/input_symbol_modality") + 1))
    ELSE IF Contains(var_name, "/symbol_modality_")
    THEN Str(SliceTo(var_name, Index(var_name, "/symbol_modality_") + 1))
    ELSE None
InspectVarnamePrefixSecondOnlyMutant(var_name) ==
    IF Contains(var_name, "/symbol_modality_")
    THEN Str(SliceTo(var_name, Index(var_name, "/symbol_modality_")))
    ELSE None
InspectVarnamePrefix(var_name) ==
    IF Contains(var_name, "/input_symbol_modality")
    THEN Str(SliceTo(var_name, Index(var_name, "/input_symbol_modality")))
    ELSE IF Contains(var_name, "/symbol_modality_")
    THEN Str(SliceTo(var_name, Index(var_name, "/symbol_modality_")))
    ELSE None

(***************************************************************************)
(* model_fn_ensemble, and scenario 4: one call of it, a step at a time.    *)
(***************************************************************************)
\* GlobalNames.ENSEMBLE_VARNAME_PREFIX
ENSEMBLE_VARNAME_PREFIX == "ensemble"

\* The variable names a checkpoint may hold, in the order list_variables
\* gives them (sorted by name).
VarNamePool ==
    << "OptimizeLoss/scopeA/input_symbol_modality/weights/Adam",
       "global_step",
       "m/symbol_modality_/emb",
       "m/symbol_modality_/input_symbol_modality/w",
       "scopeA/input_symbol_modality/weights" >>
VarNames == {VarNamePool[i] : i \in DOMAIN VarNamePool}

\* tf.contrib.framework.list_variables(model_dir): the stored names, sorted.
ListVariables(dir) == SelectSeq(VarNamePool, LAMBDA n : n \in fs[dir].vars)

\* tf.contrib.framework.load_variable(model_dir, var_name): the stored value.
LoadVariable(dir, var_name) == [dir |-> dir, name |-> var_name]

\* var_name.startswith("OptimizeLoss")
IsOptimizerStateNeverMutant(var_name) == FALSE
IsOptimizerState(var_name) == StartsWith(var_name, "OptimizeLoss")

\* GlobalNames.ENSEMBLE_VARNAME_PREFIX + str(index)
EnsembleScopeNoIndexMutant(i) == ENSEMBLE_VARNAME_PREFIX
EnsembleScope(i) == ENSEMBLE_VARNAME_PREFIX \o ToString(i)

\* The full name of a variable declared as var_name inside variable_scope(scope).
FullName(scope, var_name) == scope \o "/" \o var_name

\* assert model_name
ModelNameAssertedAlwaysMutant(name) == TRUE
ModelNameAsserted(name) == Truthy(<<>>, name)

CurrentDir == model_dirs[index + 1]
CurrentListing == ListVariables(CurrentDir)

\* The inner loop meets a variable of the optimizer state: continue.
SkipOptimizerVar ==
    /\ pc = "vars"
    /\ var_pos <= Len(CurrentListing)
    /\ IsOptimizerState(CurrentListing[var_pos])
    /\ var_pos' = var_pos + 1
    /\ UNCHANGED <<fs, model_dirs, pc, index, model_name, graph_vars, loaded,
                   models, ensemble_built, ens_ret>>
    /\ UNCHANGED es_vars
    /\ UNCHANGED mf_vars

\* The inner loop meets any other variable: infer the model name if it is not
\* known yet, load the value, and declare the variable in the scope of this
\* checkpoint.  get_variable refuses a name that is already declared.
ReloadVar ==
    /\ pc = "vars"
    /\ var_pos <= Len(CurrentListing)
    /\ LET var_name == CurrentListing[var_pos]
           scope == EnsembleScope(index)
           full == FullName(scope, var_name)
       IN /\ ~IsOptimizerState(var_name)
          /\ model_name' = IF model_name = None THEN InspectVarnamePrefix(var_name)
                           ELSE model_name
          /\ loaded' = Append(loaded, [index |-> index, dir |-> CurrentDir, name |-> var_name])
          /\ IF \E k \in 1..Len(graph_vars) : graph_vars[k].name = full
             THEN /\ pc' = "failed"
                  /\ ens_ret' = Raised("get_variable")
                  /\ UNCHANGED <<graph_vars, var_pos>>
             ELSE /\ graph_vars' = Append(graph_vars,
                        [name |-> full, scope |-> scope, index |-> index,
                         var_name |-> var_name,
                         initial |-> LoadVariable(CurrentDir, var_name)])
                  /\ var_pos' = var_pos + 1
                  /\ UNCHANGED <<pc, ens_ret>>
    /\ UNCHANGED <<fs, model_dirs, index, models, ensemble_built>>
    /\ UNCHANGED es_vars
    /\ UNCHANGED mf_vars

\* After the inner loop: assert the name, load the configuration, construct
\* the model for inference and append it; then go on to the next checkpoint.
BuildModel ==
    /\ pc = "vars"
    /\ var_pos > Len(CurrentListing)
    /\ IF ~ModelNameAsserted(model_name)
       THEN /\ pc' = "failed"
            /\ ens_ret' = AssertionError
            /\ UNCHANGED <<index, var_pos, model_name, models>>
       ELSE IF ~fs[CurrentDir].config
       THEN /\ pc' = "failed"
            /\ ens_ret' = Raised("ModelConfigs.load")
            /\ UNCHANGED <<index, var_pos, model_name, models>>
       ELSE /\ models' = Append(models, [mode |-> INFER, name |-> model_name,
                                         configs |-> CurrentDir])
            /\ index' = index + 1
            /\ var_pos' = 1
            /\ model_name' = None
            /\ pc' = IF index + 1 < Len(model_dirs) THEN "vars" ELSE "aggregate"
            /\ UNCHANGED ens_ret
    /\ UNCHANGED <<fs, model_dirs, graph_vars, loaded, ensemble_built>>
    /\ UNCHANGED es_vars
    /\ UNCHANGED mf_vars

\* ensemble_model.build(input_fields, base_models, vocab_target)
EnsemblePredictions(base_models) == [kind |-> "ensemble", base_models |-> base_models]

\* After the outer loop: build the EnsembleModel over models and return the
\* INFER-mode record.
BuildEnsemble ==
    /\ pc = "aggregate"
    /\ ensemble_built' = TRUE
    /\ ens_ret' = EstimatorSpecNew(<<>>, INFER, EnsemblePredictions(models), None,
                                   None, None, None)
    /\ pc' = "done"
    /\ UNCHANGED <<fs, model_dirs, index, var_pos, model_name, graph_vars, loaded, models>>
    /\ UNCHANGED es_vars
    /\ UNCHANGED mf_vars

Paths == {"ckpt1", "ckpt2"}

\* A directory holds any set of the pool's variables, and a configuration
\* record that loads (TRUE) or does not (FALSE).
InitEnsemble ==
    /\ model_dirs \in SeqsUpTo(Paths, MaxDirs)
    /\ fs \in [Paths -> [vars : SUBSET VarNames, config : BOOLEAN]]
    \* a directory that is not listed plays no part: keep it empty
    /\ \A d \in Paths :
          (\A i \in 1..Len(model_dirs) : model_dirs[i] # d) =>
              fs[d] = [vars |-> {}, config |-> TRUE]
    /\ pc = IF model_dirs = <<>> THEN "aggregate" ELSE "vars"
    /\ index = 0
    /\ var_pos = 1
    /\ model_name = None
    /\ graph_vars = <<>>
    /\ loaded = <<>>
    /\ models = <<>>
    /\ ensemble_built = FALSE
    /\ ens_ret = None
    /\ EsIdle
    /\ MfIdle

NextEnsemble == SkipOptimizerVar \/ ReloadVar \/ BuildModel \/ BuildEnsemble

SpecEnsemble == InitEnsemble /\ [][NextEnsemble]_vars

(***************************************************************************)
(* Scenario 1: one EstimatorSpec(...) call by a caller that keeps its hook *)
(* lists and may change them afterwards.                                   *)
(***************************************************************************)
HookArgs(id) == {None, ListRef(id)}

InitEstimatorSpec ==
    /\ heap \in [{"chief", "hooks"} -> SeqsUpTo(Objects, MaxHooks)]
    /\ args \in [mode : Modes,
                 predictions : {None, Tensor("predictions")},
                 loss : {None, Tensor("loss")},
                 train_op : {None, Tensor("train_op")},
                 training_chief_hooks : HookArgs("chief"),
                 training_hooks : HookArgs("hooks")]
    \* a list that is not passed plays no part: keep it empty
    /\ args.training_chief_hooks = None => heap["chief"] = <<>>
    /\ args.training_hooks = None => heap["hooks"] = <<>>
    /\ result = None
    /\ mutations = 0
    /\ MfIdle
    /\ EnsIdle

Construct ==
    /\ result = None
    /\ result' = EstimatorSpecNew(heap, args.mode, args.predictions, args.loss,
                                  args.train_op, args.training_chief_hooks,
                                  args.training_hooks)
    /\ UNCHANGED <<heap, args, mutations>>
    /\ UNCHANGED mf_vars
    /\ UNCHANGED ens_vars

\* The caller appends to one of the lists it passed, after the call.
CallerAppends ==
    /\ result # None
    /\ mutations < MaxMutations
    /\ \E id \in DOMAIN heap, x \in Objects :
          /\ ListRef(id) \in {args.training_chief_hooks, args.training_hooks}
          /\ heap' = [heap EXCEPT ![id] = Append(@, x)]
    /\ mutations' = mutations + 1
    /\ UNCHANGED <<args, result>>
    /\ UNCHANGED mf_vars
    /\ UNCHANGED ens_vars

\* The caller empties one of the lists it passed, after the call.
CallerClears ==
    /\ result # None
    /\ mutations < MaxMutations
    /\ \E id \in DOMAIN heap :
          /\ ListRef(id) \in {args.training_chief_hooks, args.training_hooks}
          /\ heap[id] # <<>>
          /\ heap' = [heap EXCEPT ![id] = <<>>]
    /\ mutations' = mutations + 1
    /\ UNCHANGED <<args, result>>
    /\ UNCHANGED mf_vars
    /\ UNCHANGED ens_vars

NextEstimatorSpec == Construct \/ CallerAppends \/ CallerClears

SpecEstimatorSpec == InitEstimatorSpec /\ [][NextEstimatorSpec]_vars

(***************************************************************************)
(* Properties of EstimatorSpec.__new__ (checked under SpecEstimatorSpec).  *)
(***************************************************************************)
Constructed == result # None
NoHooksSupplied == args.training_chief_hooks = None /\ args.training_hooks = None

\* The table of required fields: INFER needs predictions, TRAIN and EVAL need
\* loss, TRAIN needs train_op.
RequiredAbsent ==
    \/ args.mode = INFER /\ args.predictions = None
    \/ args.mode \in {TRAIN, EVAL} /\ args.loss = None
    \/ args.mode = TRAIN /\ args.train_op = None

\* The elements the caller supplied, while the caller has not touched its lists.
Supplied == Elements(heap, args.training_hooks) \o Elements(heap, args.training_chief_hooks)
SomeNonHook == \E i \in 1..Len(Supplied) : ~IsSessionRunHook(Supplied[i])

\* C1: for each of TRAIN, EVAL, INFER and each presence/absence of predictions,
\* loss and train_op, with no hooks supplied, construction ends in ValueError
\* exactly when a field the mode requires is absent; otherwise it yields a
\* record whose predictions, loss and train_op are the supplied values.
C1_RequiredFields ==
    (Constructed /\ args.mode \in ModeKeys /\ NoHooksSupplied) =>
        /\ result.kind = "ValueError" <=> RequiredAbsent
        /\ ~RequiredAbsent =>
              /\ result.kind = "EstimatorSpec"
              /\ result.predictions = args.predictions
              /\ result.loss = args.loss
              /\ result.train_op = args.train_op

C1_Witness ==
    /\ Constructed /\ NoHooksSupplied
    /\ args.mode = TRAIN /\ args.loss # None /\ args.train_op = None
    /\ result.kind = "ValueError"

\* C2: with the required fields present, construction ends in TypeError whenever
\* either hook sequence holds an object that is not a SessionRunHook, at any
\* position and in any mode; when every element is a hook there is no TypeError.
C2_HookTypes ==
    (Constructed /\ mutations = 0 /\ args.mode \in ModeKeys /\ ~RequiredAbsent) =>
        /\ SomeNonHook => result.kind = "TypeError"
        /\ ~SomeNonHook => result.kind = "EstimatorSpec"

C2_Witness ==
    /\ Constructed /\ mutations = 0
    /\ args.mode = EVAL /\ ~RequiredAbsent
    /\ args.training_hooks = None
    /\ Len(heap["chief"]) = 2
    /\ IsSessionRunHook(heap["chief"][1]) /\ ~IsSessionRunHook(heap["chief"][2])
    /\ result.kind = "TypeError"

\* In a constructed record both hook fields are tuples holding the supplied
\* elements in order, empty when None was supplied.
C3_FieldsAreCopies ==
    result.kind = "EstimatorSpec" =>
        /\ result.training_hooks.kind = "tuple"
        /\ result.training_chief_hooks.kind = "tuple"
        /\ args.training_hooks = None => result.training_hooks = Tuple(<<>>)
        /\ args.training_chief_hooks = None => result.training_chief_hooks = Tuple(<<>>)
        /\ mutations = 0 =>
              /\ Elements(heap, result.training_hooks) = Elements(heap, args.training_hooks)
              /\ Elements(heap, result.training_chief_hooks) =
                    Elements(heap, args.training_chief_hooks)

\* What a constructed record holds is the same after any step.
C3_RecordKeepsHooks ==
    result.kind = "EstimatorSpec" =>
        /\ Elements(heap', result'.training_hooks) = Elements(heap, result.training_hooks)
        /\ Elements(heap', result'.training_chief_hooks) =
              Elements(heap, result.training_chief_hooks)

\* C3: in a constructed record both hook fields are tuples (never None) holding
\* the supplied elements in order, empty when None was supplied, and what the
\* record holds does not change when the caller changes its lists afterwards.
C3_HookCopies == []C3_FieldsAreCopies /\ [][C3_RecordKeepsHooks]_vars

C3_Witness ==
    /\ result.kind = "EstimatorSpec"
    /\ mutations > 0
    /\ args.training_chief_hooks = None
    /\ result.training_chief_hooks = Tuple(<<>>)
    /\ args.training_hooks # None
    /\ Len(result.training_hooks.items) = 2
    /\ heap["hooks"] # result.training_hooks.items

(***************************************************************************)
(* Scenarios 2 and 3: one call of model_fn, and calls one after another.   *)
(***************************************************************************)
\* What model.build returns: for training and evaluation a sequence whose first
\* element is the loss, for inference the predictions.
LossOutputs == {Tuple(<<Tensor("loss1"), Tensor("aux")>>), Tuple(<<Tensor("loss2")>>)}
PredictionOutputs ==
    {[kind |-> "dict", id |-> "predictions"], Tuple(<<Tensor("ids"), Tensor("scores")>>)}
BuildOutputs(mode) ==
    IF mode \in {TRAIN, EVAL} THEN LossOutputs
    ELSE IF mode = INFER THEN PredictionOutputs
    ELSE LossOutputs \cup PredictionOutputs

\* The collaborator that raises in a call, if any: the model class (its
\* resolution, constructor or build), optimize, or the hook builders.  The last
\* two are only called in TRAIN mode.
Faults(mode) == IF mode = TRAIN THEN {"none", "model", "optimize", "hooks"}
                ELSE {"none", "model"}
HookLists(mode, n) == IF mode = TRAIN THEN SeqsUpTo(SessionRunHooks, n) ELSE {<<>>}

\* Every input of one call within the bounds.
CallInputs ==
    UNION {[mode : {m},
            model_output : BuildOutputs(m),
            fault : Faults(m),
            optimizer_params : {"params"},
            name : {None, Str(""), Str("nmt")},
            model : {"njunmt.models.SequenceToSequence"},
            distributed_mode : BOOLEAN,
            is_chief : BOOLEAN,
            build_hooks : HookLists(m, MaxHooks),
            build_eval_metrics : HookLists(m, MaxHooks)] : m \in Modes}

\* The inputs used when several calls follow one another: the defaults of
\* name, distributed_mode and is_chief, and hook builders that return one hook
\* each.
SeqCallInputs ==
    {in \in CallInputs :
        /\ in.name = None
        /\ in.distributed_mode = FALSE
        /\ in.is_chief = TRUE
        /\ in.mode = TRAIN => in.build_hooks = <<"hookA">> /\ in.build_eval_metrics = <<"hookB">>}

InitModelFn ==
    /\ display_keys = <<>>
    /\ display_values = <<>>
    /\ calls = <<>>
    /\ ret = None
    /\ EsIdle
    /\ EnsIdle

ModelFnStep(in) ==
    LET r == ModelFn(display_keys, display_values, in)
    IN /\ display_keys' = r.keys
       /\ display_values' = r.values
       /\ calls' = Append(calls, [in |-> in,
                                  model_name |-> ModelName(in.name, in.model),
                                  ret |-> r.ret])
       /\ ret' = r.ret
       /\ UNCHANGED es_vars
       /\ UNCHANGED ens_vars

\* One call on a fresh graph, with any inputs.
ModelFnOnFreshGraph ==
    /\ calls = <<>>
    /\ \E in \in CallInputs : ModelFnStep(in)

\* One more call on the same graph.
ModelFnCall ==
    /\ Len(calls) < MaxCalls
    /\ \E in \in SeqCallInputs : ModelFnStep(in)

SpecModelFn == InitModelFn /\ [][ModelFnOnFreshGraph]_vars
SpecModelFnCalls == InitModelFn /\ [][ModelFnCall]_vars

(***************************************************************************)
(* Properties of model_fn.                                                 *)
(***************************************************************************)
LastIn == calls[Len(calls)].in
Returned(outcome) == outcome.kind = "EstimatorSpec"

\* C4: the record model_fn returns is shaped by the mode alone.  TRAIN: loss is
\* the first build output, train_op is optimize(loss, optimizer_params),
\* training_hooks is build_hooks' result followed by build_eval_metrics',
\* predictions is None and training_chief_hooks is empty, whatever
\* distributed_mode and is_chief are.  EVAL: only loss is set.  INFER:
\* predictions is the whole build output, loss and train_op are None.  With any
\* other mode the call ends in AssertionError and returns no record.  (A call
\* in which a collaborator raises ends with that exception.)
C4_RecordByMode ==
    calls # <<>> =>
        /\ (LastIn.fault = "none" /\ LastIn.mode \in ModeKeys) => Returned(ret)
        /\ (LastIn.fault # "model" /\ LastIn.mode \notin ModeKeys) => ret = AssertionError
        /\ LastIn.mode \notin ModeKeys => ~Returned(ret)
        /\ (Returned(ret) /\ LastIn.mode = TRAIN) =>
              /\ ret.loss = LastIn.model_output.items[1]
              /\ ret.train_op = Optimize(ret.loss, LastIn.optimizer_params)
              /\ ret.training_hooks = Tuple(LastIn.build_hooks \o LastIn.build_eval_metrics)
              /\ ret.predictions = None
              /\ ret.training_chief_hooks = Tuple(<<>>)
        /\ (Returned(ret) /\ LastIn.mode = EVAL) =>
              /\ ret.loss = LastIn.model_output.items[1]
              /\ ret.train_op = None
              /\ ret.predictions = None
              /\ ret.training_hooks = Tuple(<<>>)
              /\ ret.training_chief_hooks = Tuple(<<>>)
        /\ (Returned(ret) /\ LastIn.mode = INFER) =>
              /\ ret.predictions = LastIn.model_output
              /\ ret.loss = None
              /\ ret.train_op = None
              /\ ret.training_hooks = Tuple(<<>>)
              /\ ret.training_chief_hooks = Tuple(<<>>)

C4_Witness ==
    /\ calls # <<>>
    /\ LastIn.mode = TRAIN
    /\ LastIn.distributed_mode /\ ~LastIn.is_chief
    /\ LastIn.build_hooks = <<"hookA", "hookB">>
    /\ LastIn.build_eval_metrics = <<"hookB", "hookA">>
    /\ LastIn.name = None
    /\ calls[Len(calls)].model_name = Str("SequenceToSequence")
    /\ Returned(ret)
    /\ ret.training_hooks.items = <<"hookA", "hookB", "hookB", "hookA">>

IsCompletedTrain(c) == c.in.mode = TRAIN /\ Returned(c.ret)
IsRegisteringTrain(c) == c.in.mode = TRAIN /\ c.ret # Raised("model")

\* The logged TRAIN calls that returned a record, oldest first.
CompletedTrainCalls == SelectSeq(calls, IsCompletedTrain)
\* The logged TRAIN calls whose model was built, oldest first.
RegisteringTrainCalls == SelectSeq(calls, IsRegisteringTrain)

RegistrationsMatch(logged) ==
    /\ Len(display_keys) = Len(logged)
    /\ Len(display_values) = Len(logged)
    /\ \A i \in 1..Len(logged) :
          /\ display_keys[i] = TRAIN_LOSS_KEY_NAME
          /\ display_values[i] = logged[i].in.model_output.items[1]

\* C5 as stated: after any sequence of calls the two display collections have
\* the length of the number of completed TRAIN calls, and the i-th entry pairs
\* the training-loss name with the loss of the i-th of them.
C5_Original == RegistrationsMatch(CompletedTrainCalls)

\* C5 amended: the two display collections have the length of the number of
\* TRAIN calls whose model was built (completed or not: the loss is registered
\* before optimize, the hook builders and the record's validation run), the
\* i-th entry pairs the training-loss name with the loss of the i-th of them,
\* and EVAL, INFER and other calls register nothing.
C5_RegisteredOncePerBuiltTrainCall == RegistrationsMatch(RegisteringTrainCalls)

C5_Witness ==
    /\ Len(calls) = 3
    /\ calls[1].in.mode = TRAIN /\ Returned(calls[1].ret)
    /\ calls[2].in.mode = EVAL /\ Returned(calls[2].ret)
    /\ calls[3].in.mode = TRAIN /\ calls[3].ret = Raised("optimize")
    /\ calls[1].in.model_output # calls[3].in.model_output
    /\ Len(display_values) = 2

(***************************************************************************)
(* Properties of model_fn_ensemble (checked under SpecEnsemble).           *)
(***************************************************************************)
\* The listing of the checkpoint at position i (from 1) of model_dirs.
Listing(i) == ListVariables(model_dirs[i])
HasOptimizerPrefix(n) == StartsWith(n, "OptimizeLoss")
HasMarker(n) == Contains(n, "/input_symbol_modality") \/ Contains(n, "/symbol_modality_")
\* The listed variables that can give a name: not optimizer state, with a marker.
Candidates(i) == SelectSeq(Listing(i), LAMBDA n : ~HasOptimizerPrefix(n) /\ HasMarker(n))
NonOptimizer(i) == SelectSeq(Listing(i), LAMBDA n : ~HasOptimizerPrefix(n))
ScopeAWeights == "scopeA/input_symbol_modality/weights"

\* A checkpoint none of whose variables contains a marker gets no model, no
\* record is returned, and the build ends in the assertion failure there.
NoMarkerAborts ==
    \A i \in 1..Len(model_dirs) :
        (\A n \in fs[model_dirs[i]].vars : ~HasMarker(n)) =>
            /\ Len(models) < i
            /\ ens_ret.kind # "EstimatorSpec"
            /\ (pc = "failed" /\ index = i - 1) => ens_ret = AssertionError
            /\ (pc = "vars" /\ index = i - 1) => model_name = None

\* C6 as stated: a checkpoint that holds scopeA/input_symbol_modality/weights
\* gets the model name scopeA whatever else it lists; a checkpoint with no
\* marker in any name aborts the build.
C6_Original ==
    /\ \A i \in 1..Len(models) :
          ScopeAWeights \in fs[model_dirs[i]].vars => models[i].name = Str("scopeA")
    /\ NoMarkerAborts

\* C6 amended: a checkpoint that holds scopeA/input_symbol_modality/weights
\* gets the model name scopeA provided no variable listed before it, other than
\* optimizer state, contains a marker (the name comes from the first listed
\* such variable); a checkpoint with no marker in any name aborts the build
\* with the assertion failure and no record is returned.
C6_NameFromFirstCandidate ==
    /\ \A i \in 1..Len(models) :
          /\ Candidates(i) # <<>>
          /\ Candidates(i)[1] = ScopeAWeights => models[i].name = Str("scopeA")
    /\ NoMarkerAborts

C6_Witness ==
    /\ pc = "done"
    /\ Len(models) = 2
    /\ fs[model_dirs[1]].vars = {"global_step", ScopeAWeights}
    /\ models[1].name = Str("scopeA")
    /\ "m/symbol_modality_/emb" \in fs[model_dirs[2]].vars
    /\ ScopeAWeights \in fs[model_dirs[2]].vars
    /\ models[2].name = Str("m")

\* C7: every reloaded variable is declared in a scope fixed by the position of
\* its checkpoint and different for every other position, no two reloaded
\* variables share a full name (get_variable never meets a declared name), no
\* reloaded variable is in the top-level scope, and once the load loop is over
\* there is one scope per input checkpoint.
C7_DisjointNamespaces ==
    /\ ens_ret # Raised("get_variable")
    /\ \A k, l \in 1..Len(graph_vars) :
          /\ (graph_vars[k].index = graph_vars[l].index) <=>
                (graph_vars[k].scope = graph_vars[l].scope)
          /\ k # l => graph_vars[k].name # graph_vars[l].name
    /\ \A k \in 1..Len(graph_vars) :
          /\ graph_vars[k].scope # ""
          /\ StartsWith(graph_vars[k].name, graph_vars[k].scope \o "/")
          /\ graph_vars[k].name # graph_vars[k].var_name
    /\ pc \in {"aggregate", "done"} =>
          Cardinality({graph_vars[k].scope : k \in 1..Len(graph_vars)}) = Len(model_dirs)

C7_Witness ==
    /\ pc = "done"
    /\ Len(model_dirs) = 2
    /\ model_dirs[1] = model_dirs[2]
    /\ \E k, l \in 1..Len(graph_vars) :
          /\ graph_vars[k].var_name = graph_vars[l].var_name
          /\ graph_vars[k].name = FullName(ENSEMBLE_VARNAME_PREFIX \o "0", "m/symbol_modality_/emb")
          /\ graph_vars[l].name = FullName(ENSEMBLE_VARNAME_PREFIX \o "1", "m/symbol_modality_/emb")

\* The checkpoints whose listing has been gone through entirely.
Listed(i) == i <= index \/ (i = index + 1 /\ pc # "aggregate" /\ pc # "done"
                            /\ var_pos > Len(Listing(i)))
DeclaredFor(i, n) ==
    {k \in 1..Len(graph_vars) : graph_vars[k].index = i - 1 /\ graph_vars[k].var_name = n}
LoadedFor(i, n) ==
    {k \in 1..Len(loaded) : loaded[k].index = i - 1 /\ loaded[k].name = n}

\* What the code's rule gives on each name of the pool, worked out by hand.
ExpectedPrefix(n) ==
    CASE n = "global_step" -> None
      [] n = "m/symbol_modality_/emb" -> Str("m")
      [] n = "m/symbol_modality_/input_symbol_modality/w" -> Str("m/symbol_modality_")
      [] n = "scopeA/input_symbol_modality/weights" -> Str("scopeA")
      [] n = "OptimizeLoss/scopeA/input_symbol_modality/weights/Adam" ->
            Str("OptimizeLoss/scopeA")

\* C8: a variable whose name begins with OptimizeLoss is never loaded, never
\* declared in any ensemble scope and never gives the model name; every other
\* listed variable of a checkpoint gone through is loaded once and declared
\* once, in the scope of that checkpoint, with the loaded value as initial value.
C8_OptimizerStateSkipped ==
    /\ \A k \in 1..Len(loaded) : ~HasOptimizerPrefix(loaded[k].name)
    /\ \A k \in 1..Len(graph_vars) : ~HasOptimizerPrefix(graph_vars[k].var_name)
    /\ \A i \in 1..Len(models) :
          \E n \in fs[model_dirs[i]].vars :
              ~HasOptimizerPrefix(n) /\ models[i].name = ExpectedPrefix(n)
    /\ \A i \in 1..Len(model_dirs) :
          Listed(i) =>
              \A n \in fs[model_dirs[i]].vars :
                  ~HasOptimizerPrefix(n) =>
                      /\ Cardinality(LoadedFor(i, n)) = 1
                      /\ Cardinality(DeclaredFor(i, n)) = 1
                      /\ \A k \in DeclaredFor(i, n) :
                            /\ graph_vars[k].initial = [dir |-> model_dirs[i], name |-> n]
                            /\ graph_vars[k].name =
                                  ENSEMBLE_VARNAME_PREFIX \o ToString(i - 1) \o "/" \o n

C8_Witness ==
    /\ pc = "done"
    /\ Len(model_dirs) = 2
    /\ model_dirs[1] # model_dirs[2]
    /\ \A i \in 1..2 :
          /\ "OptimizeLoss/scopeA/input_symbol_modality/weights/Adam" \in fs[model_dirs[i]].vars
          /\ "m/symbol_modality_/emb" \in fs[model_dirs[i]].vars
    /\ Len(graph_vars) >= 2

\* What holds in each state of a build.
C9_StateOrder ==
    /\ Len(models) = index
    /\ \A i \in 1..Len(models) :
          /\ models[i].mode = INFER
          /\ models[i].configs = model_dirs[i]
          /\ models[i].name.kind = "str" /\ models[i].name.s # ""
          /\ fs[model_dirs[i]].config
    /\ \A k \in 1..Len(loaded) :
          /\ loaded[k].index <= index
          /\ loaded[k].dir = model_dirs[loaded[k].index + 1]
          /\ k > 1 => loaded[k - 1].index <= loaded[k].index
    /\ ensemble_built =>
          /\ pc = "done"
          /\ index = Len(model_dirs)
          /\ \A i \in 1..Len(model_dirs) :
                Len(SelectSeq(graph_vars, LAMBDA v : v.index = i - 1)) = Len(NonOptimizer(i))
    /\ pc = "done" =>
          /\ ensemble_built
          /\ ens_ret.kind = "EstimatorSpec"
          /\ ens_ret.predictions = EnsemblePredictions(models)
          /\ ens_ret.loss = None /\ ens_ret.train_op = None
    /\ pc = "failed" =>
          /\ ~ensemble_built
          /\ ens_ret.kind \in {"AssertionError", "Raised"}
          /\ index < Len(model_dirs)
    /\ pc \in {"vars", "aggregate"} => ens_ret = None

\* What holds of each step of a build.
C9_StepOrder ==
    /\ index' \in {index, index + 1}
    /\ pc = "failed" => UNCHANGED ens_vars
    /\ pc = "done" => UNCHANGED ens_vars

\* C9: the ensemble is built only after every checkpoint, taken in input
\* order, has had its variables reloaded, its name resolved and its
\* configuration loaded; models then holds one INFER-mode model per checkpoint
\* in input order and the result is the INFER-mode record with the ensemble's
\* predictions.  If the name or the configuration of a checkpoint fails, the
\* ensemble is never built, no later checkpoint is processed and no record is
\* returned.
C9_NoPartialSuccess == []C9_StateOrder /\ [][C9_StepOrder]_vars

C9_Witness ==
    /\ pc = "failed"
    /\ Len(model_dirs) = 2
    /\ index = 1
    /\ ens_ret = Raised("ModelConfigs.load")
    /\ Candidates(2) # <<>>
    /\ Len(models) = 1
    /\ ~ensemble_built

\* C10 as stated: the name comes from the first variable of the checkpoint
\* alone (the first one that is not optimizer state), and the build aborts when
\* that variable has no marker, even if a later one has.
C10_Original ==
    \A i \in 1..Len(models) :
        /\ NonOptimizer(i) # <<>>
        /\ HasMarker(NonOptimizer(i)[1])
        /\ models[i].name = ExpectedPrefix(NonOptimizer(i)[1])

\* C10 amended: the name comes from the first listed variable, optimizer state
\* aside, whose name contains a marker (inference is tried again on each
\* variable until it gives a name): it is what precedes "/input_symbol_modality"
\* in that name or, if that marker is not in it, what precedes
\* "/symbol_modality_".  The build aborts on the assertion if no such variable
\* is listed, not merely because the first variable has no marker.
C10_NameFromFirstResolvingVar ==
    /\ \A i \in 1..Len(models) :
          /\ Candidates(i) # <<>>
          /\ models[i].name = ExpectedPrefix(Candidates(i)[1])
    /\ \A i \in 1..Len(model_dirs) :
          /\ (Listed(i) /\ index = i - 1 /\ pc = "vars") =>
                model_name = IF Candidates(i) = <<>> THEN None
                             ELSE ExpectedPrefix(Candidates(i)[1])
          /\ (pc = "failed" /\ index = i - 1) =>
                (ens_ret = AssertionError <=> Candidates(i) = <<>>)

C10_Witness ==
    /\ pc = "done"
    /\ Len(models) = 1
    /\ fs[model_dirs[1]].vars =
          {"global_step", "m/symbol_modality_/input_symbol_modality/w", ScopeAWeights}
    /\ models[1].name = Str("m/symbol_modality_")

====
